---------------------------- MODULE Spec2Model ----------------------------
(***************************************************************************)
(* The update pipeline of MeiliSearch: the Update Loop actor               *)
(* (index_controller/updates/mod.rs), the bounded inbox it reads, the      *)
(* handlers it fans out, the Update Store and Update File Store it drives  *)
(* and the writer thread of the Update Store.                              *)
(***************************************************************************)
EXTENDS Naturals, Integers, Sequences, FiniteSets, Bags, TLC

VARIABLES
    inbox,          \* buffer of the mpsc channel: messages sent, not yet received
    waiters,        \* sends blocked on a full inbox, in the order of their attempts
    rxDropped,      \* the Receiver was dropped (the stream of run() ended)
    sendersDropped, \* every UpdateSender was dropped
    must_exit,      \* UpdateLoop.must_exit
    loop,           \* position of run(): "running", "draining", "returned", "panicked"
    inflight,       \* bag of handler futures held by for_each_concurrent
    client,         \* per client: state of its request and the reply it received
    files,          \* Update File Store: content id -> persisted bytes
    tmpFiles,       \* content ids whose temporary file exists
    nextContent,    \* number of content ids allocated so far
    updates,        \* Update Store, meta keyspace: the set of update records
    pending,        \* Update Store, pending keyspace: keys in global_seq order
    next_id,        \* Update Store, next_id keyspace: per-index counter
    writer,         \* writer thread of the Update Store
    hist,           \* history: what the properties need to remember
    dump_infos,     \* Dump Actor: uid -> DumpInfo
    tasks,          \* the DumpTasks that are running, each at a step of run()
    now,            \* the clock Utc::now() reads
    disk,           \* the directories and files dumps are made of
    loader,         \* load_dump: its position and its temporary directories
    reader          \* a StreamReader under a sequence of read calls

\* hist: dropped, the requests the Loop received and dropped unhandled;
\* lastProc, per index the last update_id that entered Processing; deleted,
\* the indexes delete_all ran on; started, the requests a handler was
\* started for; alloc, the content id new_update gave to a request; failed,
\* the requests whose handler returned an error;
\* undelivered, the requests whose caller had dropped the reply receiver;
\* stale, the Update requests whose handler was in flight when a delete_all
\* of their index returned; revived, the keys of the records such a request
\* registered afterwards; creates, the DumpInfos create_dump returned; order,
\* the requests in the order the Loop dequeued them
vars == << inbox, waiters, rxDropped, sendersDropped, must_exit, loop, inflight,
           client, files, tmpFiles, nextContent, updates, pending, next_id,
           writer, hist, dump_infos, tasks, now, disk, loader, reader >>

dumpVars  == << dump_infos, tasks, now, disk, loader >>
updateVars == << inbox, waiters, rxDropped, sendersDropped, must_exit, loop,
                 inflight, client, files, tmpFiles, nextContent, updates,
                 pending, next_id, writer, hist >>
chanVars  == << inbox, waiters, rxDropped, sendersDropped >>
storeVars == << updates, pending, next_id, writer >>
fileVars  == << files, tmpFiles, nextContent >>

----------------------------------------------------------------------------
(* Program constants and bounds *)

\* mpsc::channel(100)
InboxCapacity == 100

\* for_each_concurrent(Some(10), ..)
Concurrency == 10

\* capacity of the BufReader around the StreamReader, scaled down
BufCap == 2

\* named clients, and the requests each of them sends one after the other
NumClients == 2

MaxSends == 2

\* anonymous background producers that may be blocked at the same time
MaxAnonWaiters == 1

\* content ids the File Store may allocate in a run
MaxContent == 2

\* requests the named clients send in a run, all together
MaxMsgs == 3

\* calls of done() and with_error() in a run
MaxCalls == 3

\* create_dump requests in a run
MaxCreates == 3

Clients == 1 .. NumClients

\* the producer of a background message: nobody keeps its reply receiver
Anon == CHOOSE n \in 0 .. NumClients : n \notin Clients

Indexes == {"a", "b"}

Formats == {"Json", "Ndjson", "Csv"}

----------------------------------------------------------------------------
(* Payload streams and the StreamReader *)

Chunk(bs) == [ok |-> TRUE, bytes |-> bs]

StreamErr == [ok |-> FALSE, bytes |-> << >>]

NoBytes == [some |-> FALSE, bytes |-> << >>]

SomeBytes(bs) == [some |-> TRUE, bytes |-> bs]

Min(x, y) == IF x <= y THEN x ELSE y

\* StreamReader::new
NewStreamReader(stream) == [stream |-> stream, current |-> NoBytes]

\* the result of one io::Read::read call
ReadOk(bs, sr) == [err |-> FALSE, kind |-> "-", got |-> bs, sr |-> sr]

\* ReadErr reporting the end of the input
ReadErrAsEof(sr) == [err |-> FALSE, kind |-> "-", got |-> << >>, sr |-> sr]

ReadErr(sr) == [err |-> TRUE, kind |-> "BrokenPipe", got |-> << >>, sr |-> sr]

\* ReadResidual that drops what it did not copy
ReadResidualDropping(sr, n) ==
    LET bytes    == sr.current.bytes
        split_at == Min(Len(bytes), n)
    IN  ReadOk(SubSeq(bytes, 1, split_at), [sr EXCEPT !.current = NoBytes])

\* the Some(bytes) arm of StreamReader::read: copy min(len, n) bytes and keep
\* what is left, if anything, as the residual
ReadResidual(sr, n) ==
    LET bytes    == sr.current.bytes
        split_at == Min(Len(bytes), n)
        copied   == SubSeq(bytes, 1, split_at)
        rest     == SubSeq(bytes, split_at + 1, Len(bytes))
    IN  ReadOk(copied,
               [sr EXCEPT !.current = IF rest # << >> THEN SomeBytes(rest)
                                                      ELSE NoBytes])

\* StreamReader::read with a destination of n bytes
StreamRead(sr, n) ==
    IF sr.current.some
    THEN ReadResidual(sr, n)
    ELSE IF sr.stream = << >>
         THEN ReadOk(<< >>, sr)
         ELSE LET item == Head(sr.stream)
                  rest == [sr EXCEPT !.stream = Tail(sr.stream)]
              IN  IF item.ok
                  THEN ReadResidual([rest EXCEPT !.current = SomeBytes(item.bytes)], n)
                  ELSE ReadErr(rest)

\* reading the BufReader to its end, as the document parsers do: refill the
\* buffer with reads of BufCap bytes until a read returns 0 or fails
RECURSIVE ReadToEnd(_, _)
ReadToEnd(sr, acc) ==
    LET r == StreamRead(sr, BufCap)
    IN  IF r.err THEN [err |-> TRUE, data |-> acc]
        ELSE IF r.got = << >> THEN [err |-> FALSE, data |-> acc]
        ELSE ReadToEnd(r.sr, acc \o r.got)

\* byte 9 stands for content the parser of the format rejects
BadByte == 9

\* read_json / read_csv / read_ndjson accept the bytes
Parses(data) == \A i \in 1 .. Len(data) : data[i] # BadByte

RECURSIVE Concat(_)
\* the bytes a payload stream carries before its first error
Concat(stream) ==
    IF stream = << >> \/ ~Head(stream).ok THEN << >>
    ELSE Head(stream).bytes \o Concat(Tail(stream))

EmptyPayload == << >>

GoodPayload == << Chunk(<< 1, 2, 3 >>) >>

MalformedPayload == << Chunk(<< BadByte >>) >>

BrokenPayload == << Chunk(<< 1 >>), StreamErr >>

ZeroFirstPayload == << Chunk(<< >>), Chunk(<< 1 >>) >>

Payloads == {EmptyPayload, GoodPayload, MalformedPayload, BrokenPayload}


----------------------------------------------------------------------------
(* A StreamReader under read calls *)

\* chunks of a stream, and read calls on its reader
MaxChunks == 3
MaxReads == 8

\* the lengths of the chunks of a stream; ErrItem stands for an Err item
ErrItem == -1
ItemLens == {ErrItem, 0, 1, 3}

\* the sizes of the destination buffer of a read
BufLens == {0, 1, BufCap}

RECURSIVE MakeStream(_, _)
\* the stream whose items have the lengths lens, its bytes numbered from
\* `from` on
MakeStream(lens, from) ==
    IF lens = << >> THEN << >>
    ELSE IF Head(lens) = ErrItem
    THEN << StreamErr >> \o MakeStream(Tail(lens), from)
    ELSE << Chunk([i \in 1 .. Head(lens) |-> from + i]) >>
         \o MakeStream(Tail(lens), from + Head(lens))

Streams ==
    {MakeStream(lens, 0) :
        lens \in UNION {[1 .. k -> ItemLens] : k \in 0 .. MaxChunks}}

\* a reader: input, the stream it was made on; sr, the StreamReader;
\* delivered, the bytes its reads returned so far; calls, the number of
\* reads; n, prev and last, the buffer size of the last read, the
\* StreamReader before it and its result
ReaderOn(stream) ==
    [input |-> stream, sr |-> NewStreamReader(stream), delivered |-> << >>,
     calls |-> 0, n |-> 0, prev |-> NewStreamReader(stream),
     last |-> ReadOk(<< >>, NewStreamReader(stream))]

IdleReader == ReaderOn(<< >>)

\* reader.read(buf) with a buffer of n bytes
Read(n) ==
    /\ reader.calls < MaxReads
    /\ LET r == StreamRead(reader.sr, n)
       IN  reader' = [reader EXCEPT !.sr = r.sr,
                                    !.delivered = @ \o r.got,
                                    !.calls = @ + 1,
                                    !.n = n,
                                    !.prev = reader.sr,
                                    !.last = r]
    /\ UNCHANGED << updateVars, dumpVars >>

----------------------------------------------------------------------------
(* Messages, replies and clients *)

\* an UpdateMsg; client and seq identify its oneshot reply channel `ret`
Msg(c, s, kind, uuid, id, update, format, payload) ==
    [client |-> c, seq |-> s, kind |-> kind, uuid |-> uuid, id |-> id,
     update |-> update, format |-> format, payload |-> payload, path |-> "-"]

\* the store::Update kinds other than DocumentAddition
PlainUpdates == {"Settings", "ClearDocuments", "DeleteDocuments"}

NoRecord == [uid |-> "-", id |-> 0, kind |-> "-", content |-> 0, status |-> "-"]

NoReply == [tag |-> "None", err |-> "-", fmt |-> "-", id |-> 0, recs |-> << >>]

\* Ok(value) of a handler; recs holds the UpdateStatus values it carries
OkReply(recs) == [NoReply EXCEPT !.tag = "Ok", !.recs = recs]

\* Err(UpdateLoopError) of a handler
ErrReply(e, fmt, id) == [NoReply EXCEPT !.tag = "Err", !.err = e, !.fmt = fmt, !.id = id]

\* what the caller's oneshot receiver yields when `ret` is dropped unsent
Canceled == [NoReply EXCEPT !.tag = "Canceled"]

\* what UpdateSender::send yields once the Receiver is gone
SendError == [NoReply EXCEPT !.tag = "SendError"]

NoMsg == Msg(Anon, 0, "-", "-", 0, "-", "-", << >>)

\* a client: st, where its request is; seq, how many requests it has sent;
\* req and reply, its last request and the reply to it; known, the record its
\* last successful Update returned; deleted, whether delete_all ran on the
\* index of known since; late, whether req was sent after the Loop stopped
IdleClient ==
    [st |-> "idle", seq |-> 0, req |-> NoMsg, reply |-> NoReply,
     known |-> NoRecord, deleted |-> FALSE, late |-> FALSE]

\* the client of message m is still waiting on the reply channel of m
Awaits(cl, m) ==
    /\ m.client # Anon
    /\ cl[m.client].st \in {"waiting", "blocked"}
    /\ cl[m.client].seq = m.seq

\* `let _ = ret.send(res)`: the reply reaches the caller if its receiver is
\* still there; a failed send is ignored
SendReply(cl, m, res) ==
    IF Awaits(cl, m)
    THEN [cl EXCEPT ![m.client].st = "idle",
                    ![m.client].reply = res,
                    ![m.client].known =
                        IF m.kind = "Update" /\ res.tag = "Ok" THEN res.recs[1] ELSE @,
                    ![m.client].deleted =
                        IF m.kind = "Update" /\ res.tag = "Ok" THEN FALSE ELSE @]
    ELSE cl

\* the same reply to every message of a sequence (a caller waits on one
\* reply channel at a time)
SendReplies(cl, ms, res) ==
    [c \in DOMAIN cl |->
        LET mine == {i \in 1 .. Len(ms) : ms[i].client = c /\ Awaits(cl, ms[i])}
        IN  IF mine = {} THEN cl[c]
            ELSE SendReply(cl, ms[CHOOSE i \in mine : TRUE], res)[c]]

\* a blocked send completes: the message is in the inbox, the caller now
\* waits for the reply
Accepted(cl, m) ==
    IF Awaits(cl, m) THEN [cl EXCEPT ![m.client].st = "waiting"] ELSE cl

\* the senders the channel woke with a permit
Woken(cl, ms) == IF ms = << >> THEN cl ELSE Accepted(cl, ms[1])

----------------------------------------------------------------------------
(* The bounded channel: mpsc::channel(InboxCapacity) *)

AnonWaiting == Cardinality({i \in 1 .. Len(waiters) : waiters[i].client = Anon})

\* Sender::send on the channel, for a message whose caller is in state
\* "blocked" (sending): closed, accepted, or queued behind the senders
\* already waiting for a permit
ChannelSend(ib, ws, closed, cl, m) ==
    IF closed
    THEN [inbox |-> ib, waiters |-> ws, client |-> SendReply(cl, m, SendError)]
    ELSE IF Len(ib) < InboxCapacity
    THEN [inbox |-> Append(ib, m), waiters |-> ws, client |-> Accepted(cl, m)]
    ELSE [inbox |-> ib, waiters |-> Append(ws, m), client |-> cl]

\* NextWaiter waking the newest waiter
NextWaiterNewest(ws) == Len(ws)

\* the sender that gets the permit a recv released: the longest waiting one
NextWaiter(ws) == 1

\* the channel after recv took the head of the inbox: the permit goes to a
\* waiting sender, whose message enters the inbox
AfterRecv(ib, ws) ==
    IF ws = << >> THEN [inbox |-> Tail(ib), waiters |-> ws, woken |-> << >>]
    ELSE LET i == NextWaiter(ws)
         IN  [inbox   |-> Append(Tail(ib), ws[i]),
              waiters |-> SubSeq(ws, 1, i - 1) \o SubSeq(ws, i + 1, Len(ws)),
              woken   |-> << ws[i] >>]


----------------------------------------------------------------------------
(* Update File Store *)

\* UpdateFileStore::new_update: a fresh content id and its temporary file
NewUpdate == nextContent + 1

\* content id c is readable from the File Store
Persisted(c) == c \in DOMAIN files

\* UpdateFile::persist: the temporary file becomes the blob of content id c
Persist(fs, c, data) == [x \in DOMAIN fs \cup {c} |-> IF x = c THEN data ELSE fs[x]]

\* UpdateFileStore::delete of a set of content ids
DeleteFiles(fs, cs) == [x \in DOMAIN fs \ cs |-> fs[x]]

----------------------------------------------------------------------------
(* Update Store *)

Key(r) == << r.uid, r.id >>

Rank(status) ==
    CASE status = "Enqueued"   -> 0
      [] status = "Processing" -> 1
      [] OTHER                 -> 2

RecordsOf(us, uid) == {r \in us : r.uid = uid}

RECURSIVE SortById(_)
SortById(rs) ==
    IF rs = {} THEN << >>
    ELSE LET first == CHOOSE r \in rs : \A q \in rs : r.id <= q.id
         IN  << first >> \o SortById(rs \ {first})

\* UpdateStore::list: the records of the index, by ascending update_id
List(us, uid) == SortById(RecordsOf(us, uid))

\* UpdateStore::meta: the records with that key (none or one)
Meta(us, uid, id) == {r \in us : r.uid = uid /\ r.id = id}

\* AllocId from one counter shared by the indexes
AllocIdShared(uid) == next_id["a"] + next_id["b"]

\* the update_id register_update allocates for the index
AllocId(uid) == next_id[uid]

\* the record register_update writes
NewRecord(uid, kind, content) ==
    [uid |-> uid, id |-> AllocId(uid), kind |-> kind, content |-> content,
     status |-> "Enqueued"]

\* UpdateStore::register_update, one write transaction
RegisterUpdate(rec) ==
    /\ updates' = updates \cup {rec}
    /\ pending' = Append(pending, Key(rec))
    /\ next_id' = [next_id EXCEPT ![rec.uid] = @ + 1]
    /\ UNCHANGED writer

RECURSIVE DropIndex(_, _)
DropIndex(q, uid) ==
    IF q = << >> THEN << >>
    ELSE IF Head(q)[1] = uid THEN DropIndex(Tail(q), uid)
    ELSE << Head(q) >> \o DropIndex(Tail(q), uid)

\* the records delete_all removes
Removed(us, uid) == RecordsOf(us, uid)

\* UpdateStore::delete_all: the records and pending entries of the index go,
\* their payloads are removed from the File Store, and the update the writer
\* is processing for the index is cancelled
DeleteAll(uid) ==
    /\ updates' = updates \ Removed(updates, uid)
    /\ pending' = DropIndex(pending, uid)
    /\ files' = DeleteFiles(files, {r.content : r \in Removed(updates, uid)})
    /\ writer' = IF writer.busy /\ writer.uid = uid
                 THEN [writer EXCEPT !.cancelled = TRUE] ELSE writer
    /\ UNCHANGED << next_id, tmpFiles, nextContent >>

IdleWriter == [busy |-> FALSE, uid |-> "-", id |-> 0, cancelled |-> FALSE]


----------------------------------------------------------------------------
(* DumpInfo *)

\* the uids the Dump Actor gives to dumps, in the order it gives them
Uids == << "d1", "d2", "d3" >>

DumpStatus == {"Done", "InProgress", "Failed"}

\* the messages of the errors a dump can fail with
DumpErrors == {"Internal", "Unexpected"}

NoTime == [some |-> FALSE, at |-> 0]

SomeTime(t) == [some |-> TRUE, at |-> t]

NoError == [some |-> FALSE, msg |-> "-"]

SomeError(e) == [some |-> TRUE, msg |-> e]

\* DumpInfo::new at time t
DumpInfoNew(uid, status, t) ==
    [uid |-> uid, status |-> status, error |-> NoError,
     started_at |-> t, finished_at |-> NoTime]

\* DumpInfo::with_error at time t
with_error(info, error, t) ==
    [info EXCEPT !.status = "Failed",
                 !.finished_at = SomeTime(t),
                 !.error = SomeError(error)]

\* done that leaves finished_at alone
doneKeepsTime(info, t) == [info EXCEPT !.status = "Done"]

\* DumpInfo::done at time t
done(info, t) ==
    [info EXCEPT !.finished_at = SomeTime(t),
                 !.status = "Done"]

\* dump_already_in_progress that never sees a dump in progress
dump_never_in_progress(info) == FALSE

\* DumpInfo::dump_already_in_progress
dump_already_in_progress(info) == info.status = "InProgress"

----------------------------------------------------------------------------
(* The directories and files of the dumps *)

META_FILE_NAME == "metadata.json"

\* a directory is the set of its entries, each a name with its content
Entry(name, content) == << name, content >>

\* new_v3 writing the tag of MetadataVersion::V2
new_v2 == "V2"

\* the serialized MetadataVersion::new_v3: its dumpVersion tag
new_v3 == "V3"

\* a file name is the sequence of its parts between the dots; a uid of the
\* Dump Actor holds no dot
FileName(uid) == << uid >>

\* Path::with_extension: the extension replaces the one the name has, or is
\* added when it has none
with_extension(name, ext) ==
    IF Len(name) > 1 THEN SubSeq(name, 1, Len(name) - 1) \o << ext >>
    ELSE name \o << ext >>

\* dumps_dir, whether <dumps_dir> exists, and dumps, the files in it by name;
\* staging, the TempDir of each DumpTask; archives, the NamedTempFile of each
\* DumpTask; same_device, whether the directory of temporary files is on the
\* file system of <dumps_dir>
EmptyDisk ==
    [dumps_dir |-> FALSE, dumps |-> << >>, staging |-> << >>,
     archives |-> << >>, same_device |-> TRUE]

\* the function f without the key k
Without(f, k) == [x \in DOMAIN f \ {k} |-> f[x]]

\* the function f with the value v at the key k
With(f, k, v) == [x \in DOMAIN f \cup {k} |-> IF x = k THEN v ELSE f[x]]

\* the archives load_dump may be given: one that cannot be unpacked, one
\* without metadata.json, one whose metadata.json does not parse, and one of
\* each MetadataVersion
Archives == {"unreadable", "no_meta", "bad_meta", "V1", "V2", "V3"}

\* load_dump: pc, the statement it is at; at, the statement that failed;
\* archive, the file at src_path; meta, the MetadataVersion it parsed;
\* tmp_src and tmp_dst, whether these directories are on the disk; kept,
\* whether tmp_dst was turned into a plain path by into_path; dst, the
\* database at dst_path: "absent", "old", "partial" (a part of the old one)
\* or "new"; was, what dst was when load_dump was called
IdleLoader ==
    [pc |-> "idle", at |-> "-", archive |-> "V3", meta |-> "-",
     tmp_src |-> FALSE, tmp_dst |-> FALSE, kept |-> FALSE, dst |-> "absent",
     was |-> "absent"]

----------------------------------------------------------------------------
(* Initial state: UpdateLoop::new and create_update_handler *)

\* no dump was asked for and load_dump is not running
InitDumps ==
    /\ dump_infos = << >>
    /\ tasks = {}
    /\ now = 0
    /\ disk = EmptyDisk
    /\ loader = IdleLoader
    /\ reader = IdleReader

InitUpdates ==
    /\ inbox = << >>
    /\ waiters = << >>
    /\ rxDropped = FALSE
    /\ sendersDropped = FALSE
    /\ must_exit = FALSE
    /\ loop = "running"
    /\ inflight = EmptyBag
    /\ client = [c \in Clients |-> IdleClient]
    /\ files = << >>
    /\ tmpFiles = {}
    /\ nextContent = 0
    /\ updates = {}
    /\ pending = << >>
    /\ next_id = [u \in Indexes |-> 0]
    /\ writer = IdleWriter
    /\ hist = [dropped     |-> {},
               lastProc    |-> [u \in Indexes |-> -1],
               deleted     |-> [u \in Indexes |-> FALSE],
               started     |-> {},
               alloc       |-> {},
               failed      |-> {},
               undelivered |-> {},
               stale       |-> {},
               revived     |-> {},
               creates     |-> << >>,
               order       |-> << >>]

Init == InitUpdates /\ InitDumps

----------------------------------------------------------------------------
(* Producers *)

RECURSIVE SumSeq(_, _)
SumSeq(cl, cs) ==
    IF cs = {} THEN 0
    ELSE LET c == CHOOSE x \in cs : TRUE IN cl[c].seq + SumSeq(cl, cs \ {c})

\* requests sent so far
Sent == SumSeq(client, Clients)

\* a client sends message m on its clone of the UpdateSender and then waits
\* for the reply
Send(c, m) ==
    /\ ~sendersDropped
    /\ client[c].st = "idle"
    /\ client[c].seq < MaxSends
    /\ Sent < MaxMsgs
    /\ m.client = c /\ m.seq = client[c].seq + 1
    /\ LET cl == [client EXCEPT ![c].st = "blocked", ![c].seq = m.seq,
                                ![c].req = m, ![c].reply = NoReply,
                                ![c].late = (loop # "running")]
           ch == ChannelSend(inbox, waiters, rxDropped, cl, m)
       IN  /\ inbox' = ch.inbox
           /\ waiters' = ch.waiters
           /\ client' = ch.client
    /\ UNCHANGED << rxDropped, sendersDropped, must_exit, dumpVars, reader, loop, inflight,
                    fileVars, storeVars, hist >>

\* a background producer sends a message and keeps no receiver for the reply
SendAnon(m) ==
    /\ ~sendersDropped
    /\ ~rxDropped
    /\ m.client = Anon
    /\ Len(inbox) < InboxCapacity \/ AnonWaiting < MaxAnonWaiters
    /\ LET ch == ChannelSend(inbox, waiters, rxDropped, client, m)
       IN  /\ inbox' = ch.inbox
           /\ waiters' = ch.waiters
    /\ UNCHANGED << rxDropped, sendersDropped, must_exit, dumpVars, reader, loop, inflight, client,
                    fileVars, storeVars, hist >>

\* the caller drops the receiver of its reply channel before the reply comes
DropReceiver(c) ==
    /\ client[c].st = "waiting"
    /\ client' = [client EXCEPT ![c].st = "idle"]
    /\ UNCHANGED << chanVars, must_exit, dumpVars, reader, loop, inflight, fileVars, storeVars, hist >>

\* the last UpdateSender is dropped: no send is in progress and none follows
DropSenders ==
    /\ ~sendersDropped
    /\ waiters = << >>
    /\ sendersDropped' = TRUE
    /\ UNCHANGED << inbox, waiters, rxDropped, must_exit, dumpVars, reader, loop, inflight, client,
                    fileVars, storeVars, hist >>

----------------------------------------------------------------------------
(* UpdateLoop::run *)

InFlight == BagCardinality(inflight)

\* CanPoll without the limit
CanPollAlways == TRUE

\* for_each_concurrent polls the stream only below its limit
CanPoll == InFlight < Concurrency

StreamPolled == loop = "running" /\ CanPoll

Handler(m, pc, content) == [msg |-> m, pc |-> pc, content |-> content]

Spawn(h) == inflight' = inflight (+) SetToBag({h})

Internal == ErrReply("Internal", "-", 0)

\* the history after the handler of m returned res
Noted(hs, cl, m, res) ==
    IF m.client = Anon THEN hs
    ELSE [hs EXCEPT
            !.failed = IF res.tag = "Err" THEN @ \cup {<< m.client, m.seq >>} ELSE @,
            !.undelivered = IF Awaits(cl, m) THEN @ ELSE @ \cup {<< m.client, m.seq >>},
            !.revived = IF /\ m.kind = "Update" /\ res.tag = "Ok"
                           /\ << m.client, m.seq >> \in hs.stale
                        THEN @ \cup {Key(res.recs[i]) : i \in 1 .. Len(res.recs)}
                        ELSE @]

\* the history after a handler was started for m
Started(hs, m) ==
    IF m.client = Anon THEN hs
    ELSE [hs EXCEPT !.started = @ \cup {<< m.client, m.seq >>},
                    !.order = Append(@, << m.client, m.seq >>)]

\* the first poll of the handler of message m, up to its first await
StartHandler(m, cl) ==
    IF m.kind = "Update" /\ m.update = "DocumentAddition"
    THEN \/ /\ nextContent < MaxContent
            /\ nextContent' = NewUpdate
            /\ tmpFiles' = tmpFiles \cup {NewUpdate}
            /\ Spawn(Handler(m, "ingest", NewUpdate))
            /\ client' = cl
            /\ hist' = [Started(hist, m)
                          EXCEPT !.alloc = @ \cup {<< m.client, m.seq, NewUpdate >>}]
            /\ UNCHANGED files
         \/ /\ client' = SendReply(cl, m, Internal)
            /\ hist' = Noted(Started(hist, m), cl, m, Internal)
            /\ UNCHANGED << inflight, fileVars >>
    ELSE /\ Spawn(Handler(m, IF m.kind = "Update" THEN "register" ELSE "run", 0))
         /\ client' = cl
         /\ hist' = Started(hist, m)
         /\ UNCHANGED fileVars

\* EndStream with the Receiver kept in the UpdateLoop: it outlives the stream
EndStreamKeepReceiver(lost, ws, cl) ==
    /\ client' = SendReplies(cl, IF lost = << >> THEN << >> ELSE << Head(lost) >>, Canceled)
    /\ inbox' = IF lost = << >> THEN << >> ELSE Tail(lost)
    /\ waiters' = ws
    /\ loop' = "draining"
    /\ UNCHANGED rxDropped

\* the stream ends: the Receiver is dropped with the stream, the messages
\* still buffered are dropped with their reply senders, waiting sends fail
EndStream(lost, ws, cl) ==
    /\ rxDropped' = TRUE
    /\ inbox' = << >>
    /\ waiters' = << >>
    /\ client' = SendReplies(SendReplies(cl, lost, Canceled), ws, SendError)
    /\ loop' = "draining"

\* inbox.recv() yields a message, must_exit is false: the message is yielded
\* to for_each_concurrent, which starts its handler
Dequeue ==
    /\ StreamPolled
    /\ inbox # << >>
    /\ ~must_exit
    /\ LET ch == AfterRecv(inbox, waiters)
       IN  /\ inbox' = ch.inbox
           /\ waiters' = ch.waiters
           /\ StartHandler(Head(inbox), Woken(client, ch.woken))
    /\ UNCHANGED << rxDropped, sendersDropped, must_exit, dumpVars, reader, loop, storeVars >>

\* inbox.recv() yields a message, must_exit is true: break
ExitOnFlag ==
    /\ StreamPolled
    /\ inbox # << >>
    /\ must_exit
    /\ LET ch == AfterRecv(inbox, waiters)
           m  == Head(inbox)
       IN  /\ EndStream(<< m >> \o ch.inbox, ch.waiters, client)
           /\ hist' = [hist EXCEPT !.dropped = @ \cup {<< m.client, m.seq >>}]
    /\ UNCHANGED << sendersDropped, must_exit, dumpVars, reader, inflight, fileVars, storeVars >>

\* inbox.recv() yields None: every sender is gone and the inbox is empty
ExitOnClosed ==
    /\ StreamPolled
    /\ inbox = << >>
    /\ sendersDropped
    /\ EndStream(<< >>, << >>, client)
    /\ UNCHANGED << sendersDropped, must_exit, dumpVars, reader, inflight, fileVars, storeVars, hist >>

\* LoopReturn as soon as the stream has ended, the handlers left behind
LoopReturnEarly ==
    /\ loop = "draining"
    /\ loop' = "returned"
    /\ UNCHANGED << chanVars, must_exit, dumpVars, reader, inflight, client, fileVars, storeVars, hist >>

\* for_each_concurrent completes: the stream has ended and no handler is left
LoopReturn ==
    /\ loop = "draining"
    /\ InFlight = 0
    /\ loop' = "returned"
    /\ UNCHANGED << chanVars, must_exit, dumpVars, reader, inflight, client, fileVars, storeVars, hist >>


----------------------------------------------------------------------------
(* The handlers *)

Replace(h, g) == inflight' = (inflight (-) SetToBag({h})) (+) SetToBag({g})

\* Finish with `ret.send(res).unwrap()`: a caller that dropped its receiver
\* makes the Loop panic
FinishUnwrap(h, res) ==
    /\ inflight' = inflight (-) SetToBag({h})
    /\ client' = SendReply(client, h.msg, res)
    /\ hist' = Noted(hist, client, h.msg, res)
    /\ loop' = IF Awaits(client, h.msg) THEN loop ELSE "panicked"

\* the handler returns: its result is sent on the reply channel and its
\* future leaves for_each_concurrent
Finish(h, res) ==
    /\ inflight' = inflight (-) SetToBag({h})
    /\ client' = SendReply(client, h.msg, res)
    /\ hist' = Noted(hist, client, h.msg, res)
    /\ loop' = loop

IngestOk(data) == [ok |-> TRUE, data |-> data, res |-> NoReply]

IngestErr(res) == [ok |-> FALSE, data |-> << >>, res |-> res]

\* IngestResult without the check of the first fill_buf
IngestResultUnchecked(m) ==
    LET all == ReadToEnd(NewStreamReader(m.payload), << >>)
    IN  IF all.err THEN IngestErr(Internal)
        ELSE IF ~Parses(all.data)
        THEN IngestErr(ErrReply("MalformedPayload", m.format, 0))
        ELSE IngestOk(all.data)

\* the blocking task of handle_update up to persist(): the empty-payload
\* check on the first fill_buf, then the parser of the format
IngestResult(m) ==
    LET first == StreamRead(NewStreamReader(m.payload), BufCap)
    IN  IF first.err THEN IngestErr(Internal)
        ELSE IF first.got = << >>
        THEN IngestErr(ErrReply("MissingPayload", m.format, 0))
        ELSE LET all == ReadToEnd(first.sr, first.got)
             IN  IF all.err THEN IngestErr(Internal)
                 ELSE IF ~Parses(all.data)
                 THEN IngestErr(ErrReply("MalformedPayload", m.format, 0))
                 ELSE IngestOk(all.data)

\* Ingested without the persist(): the task returns Ok, the blob is not there
IngestedUnpersisted(h, data) ==
    /\ tmpFiles' = tmpFiles \ {h.content}
    /\ Replace(h, [h EXCEPT !.pc = "register"])
    /\ UNCHANGED << client, files, nextContent, hist, loop >>

\* update_file.persist() succeeded and the task returned Ok: the handler
\* goes on to the registration
Ingested(h, data) ==
    /\ files' = Persist(files, h.content, data)
    /\ tmpFiles' = tmpFiles \ {h.content}
    /\ Replace(h, [h EXCEPT !.pc = "register"])
    /\ UNCHANGED << client, nextContent, hist, loop >>

\* the task returned an error (or panicked): the update file is dropped
\* unpersisted and the error is the handler's result
IngestFailed(h, res) ==
    /\ tmpFiles' = tmpFiles \ {h.content}
    /\ Finish(h, res)
    /\ UNCHANGED << files, nextContent >>

\* handle_update, DocumentAddition: the blocking task that reads, parses and
\* persists the payload, and the handler's `.await??` on it
Ingest(h) ==
    /\ h.pc = "ingest"
    /\ LET r == IngestResult(h.msg)
       IN  IF r.ok
           THEN \/ Ingested(h, r.data)
                \/ IngestFailed(h, Internal)
           ELSE IngestFailed(h, r.res)
    /\ UNCHANGED << chanVars, must_exit, dumpVars, reader, storeVars >>

\* Registered without waiting for the commit: the reply leaves first
RegisteredUncommitted(h, rec) ==
    /\ Finish(h, OkReply(<< rec >>))
    /\ UNCHANGED storeVars

\* register_update committed rec: the handler returns Ok(status)
Registered(h, rec) ==
    /\ RegisterUpdate(rec)
    /\ Finish(h, OkReply(<< rec >>))

\* handle_update: the blocking task that calls register_update, and the
\* handler's result
Register(h) ==
    /\ h.pc = "register"
    /\ \/ Registered(h, NewRecord(h.msg.uuid, h.msg.update, h.content))
       \/ /\ Finish(h, Internal)
          /\ UNCHANGED storeVars
    /\ UNCHANGED << chanVars, must_exit, dumpVars, reader, fileVars >>

\* handle_list_updates
RunList(h) ==
    /\ h.pc = "run" /\ h.msg.kind = "ListUpdates"
    /\ \/ Finish(h, OkReply(List(updates, h.msg.uuid)))
       \/ Finish(h, Internal)
    /\ UNCHANGED << chanVars, must_exit, dumpVars, reader, fileVars, storeVars >>

\* handle_get_update
RunGet(h) ==
    /\ h.pc = "run" /\ h.msg.kind = "GetUpdate"
    /\ \/ LET found == Meta(updates, h.msg.uuid, h.msg.id)
          IN  IF found = {}
              THEN Finish(h, ErrReply("UnexistingUpdate", "-", h.msg.id))
              ELSE \E r \in found : Finish(h, OkReply(<< r >>))
       \/ Finish(h, Internal)
    /\ UNCHANGED << chanVars, must_exit, dumpVars, reader, fileVars, storeVars >>

\* the clients that hold a record of the index learn nothing of a deletion;
\* the history notes it for them
NoteDeleted(cl, uid) ==
    [c \in DOMAIN cl |->
        IF cl[c].known.uid = uid THEN [cl[c] EXCEPT !.deleted = TRUE] ELSE cl[c]]

\* the Update requests of the index whose handler is in flight
Overtaken(uid) ==
    {<< g.msg.client, g.msg.seq >> :
        g \in {f \in BagToSet(inflight) :
                 f.msg.kind = "Update" /\ f.msg.uuid = uid /\ f.msg.client # Anon}}

\* handle_delete
RunDelete(h) ==
    /\ h.pc = "run" /\ h.msg.kind = "DeleteIndex"
    /\ \/ /\ DeleteAll(h.msg.uuid)
          /\ inflight' = inflight (-) SetToBag({h})
          /\ client' = SendReply(NoteDeleted(client, h.msg.uuid), h.msg, OkReply(<< >>))
          /\ hist' = [Noted(hist, client, h.msg, OkReply(<< >>))
                        EXCEPT !.deleted[h.msg.uuid] = TRUE,
                               !.stale = @ \cup Overtaken(h.msg.uuid)]
          /\ loop' = loop
       \/ /\ Finish(h, Internal)
          /\ UNCHANGED << fileVars, storeVars >>
    /\ UNCHANGED << chanVars, must_exit, dumpVars, reader >>

\* handle_dump: the blocking task of UpdateStore::dump, which writes the
\* update queues into the directory of the message
RunDump(h) ==
    /\ h.pc = "run" /\ h.msg.kind = "Dump"
    /\ \/ /\ h.msg.path \in DOMAIN disk.staging
          /\ disk' = [disk EXCEPT !.staging[h.msg.path] =
                                     @ \cup {Entry("updates", "queues")}]
          /\ Finish(h, OkReply(<< >>))
       \/ /\ Finish(h, Internal)
          /\ UNCHANGED disk
    /\ UNCHANGED << chanVars, must_exit, fileVars, storeVars,
                    dump_infos, tasks, now, loader, reader >>

\* handle_snapshot, handle_get_info: they read the store
RunOther(h) ==
    /\ h.pc = "run" /\ h.msg.kind \in {"Snapshot", "GetInfo"}
    /\ \/ Finish(h, OkReply(<< >>))
       \/ Finish(h, Internal)
    /\ UNCHANGED << chanVars, must_exit, dumpVars, reader, fileVars, storeVars >>

----------------------------------------------------------------------------
(* The writer thread of the Update Store *)

\* NextPending taking the newest entry
NextPendingLast(q) == Len(q)

\* the pending entry the writer takes: the head of the queue
NextPending(q) == 1

\* pop the head of pending, mark the record Processing, commit
WriterStart ==
    /\ ~writer.busy
    /\ ~must_exit
    /\ pending # << >>
    /\ LET i == NextPending(pending)
           k == pending[i]
       IN  /\ writer' = [busy |-> TRUE, uid |-> k[1], id |-> k[2], cancelled |-> FALSE]
           /\ pending' = SubSeq(pending, 1, i - 1) \o SubSeq(pending, i + 1, Len(pending))
           /\ updates' = {IF Key(r) = k THEN [r EXCEPT !.status = "Processing"] ELSE r
                          : r \in updates}
           /\ hist' = [hist EXCEPT !.lastProc[k[1]] = k[2]]
    /\ UNCHANGED << chanVars, must_exit, dumpVars, reader, loop, inflight, client, fileVars, next_id >>

\* the update was applied or failed: the final status is committed and the
\* payload is deleted; nothing is written for a record delete_all removed
WriterFinish ==
    /\ writer.busy
    /\ \E outcome \in {"Processed", "Failed"} :
         LET applied == {r \in updates : Key(r) = << writer.uid, writer.id >>}
         IN  /\ updates' = (updates \ applied) \cup
                           {[r EXCEPT !.status = outcome] : r \in applied}
             /\ files' = DeleteFiles(files, {r.content : r \in applied})
    /\ writer' = IdleWriter
    /\ UNCHANGED << chanVars, must_exit, dumpVars, reader, loop, inflight, client, tmpFiles,
                    nextContent, pending, next_id, hist >>

\* an environment-level fatal error: must_exit is set, the writer halts
FatalError ==
    /\ ~must_exit
    /\ must_exit' = TRUE
    /\ UNCHANGED << dumpVars, reader, chanVars, loop, inflight, client, fileVars, storeVars, hist >>


----------------------------------------------------------------------------
(* DumpTask::run. A task is a record: uid, the uid of the dump it makes; pc,  *)
(* the step it is at; at, the step that failed. Its staging directory and its temporary archive file  *)
(* are kept on the disk under its uid.                                      *)

Task(uid) == [uid |-> uid, pc |-> "create_dir", at |-> "-"]

\* the sender the DumpTask holds on the inbox of the Update Loop
DumpSender == CHOOSE c \in Clients : \A d \in Clients : c >= d

\* UpdateMsg::Dump with the path of a staging directory
Dump(c, s, path) == [Msg(c, s, "Dump", "-", 0, "-", "-", << >>) EXCEPT !.path = path]

\* the task moves to the step pc
Goto(t, pc) == tasks' = (tasks \ {t}) \cup {[t EXCEPT !.pc = pc]}

\* the disk once the TempDir and the NamedTempFile of task t are dropped
Dropped(d, t) ==
    [d EXCEPT !.staging = Without(@, t.uid), !.archives = Without(@, t.uid)]

\* the task returns the error of the step it is at
Returns(t) == tasks' = (tasks \ {t}) \cup {[t EXCEPT !.pc = "failed", !.at = t.pc]}

\* Fail with the staging directory and the temporary file left on the disk
FailLeaving(t) ==
    /\ Returns(t)
    /\ disk' = disk

\* a step of run returns an error through `?`: the locals of run are dropped
Fail(t) ==
    /\ Returns(t)
    /\ disk' = Dropped(disk, t)

\* create_dir_all(&self.path)
CreateDir(t) ==
    /\ t.pc = "create_dir"
    /\ \/ /\ disk' = [disk EXCEPT !.dumps_dir = TRUE]
          /\ Goto(t, "temp_dir")
       \/ Fail(t)
    /\ UNCHANGED << reader, updateVars, dump_infos, now, loader >>

\* spawn_blocking(tempfile::TempDir::new)
TempDirNew(t) ==
    /\ t.pc = "temp_dir"
    /\ \/ /\ disk' = [disk EXCEPT !.staging = With(@, t.uid, {})]
          /\ Goto(t, "meta")
       \/ Fail(t)
    /\ UNCHANGED << reader, updateVars, dump_infos, now, loader >>

\* File::create(&meta_path) and serde_json::to_writer of new_v3
WriteMeta(t) ==
    /\ t.pc = "meta"
    /\ \/ /\ disk' = [disk EXCEPT !.staging[t.uid] =
                                     @ \cup {Entry(META_FILE_NAME, new_v3)}]
          /\ Goto(t, "resolver")
       \/ Fail(t)
    /\ UNCHANGED << reader, updateVars, dump_infos, now, loader >>

\* self.index_resolver.dump(temp_dump_path): every index dumped into the
\* staging directory
ResolverDump(t) ==
    /\ t.pc = "resolver"
    /\ \/ /\ disk' = [disk EXCEPT !.staging[t.uid] =
                                     @ \cup {Entry("indexes", "dump")}]
          /\ Goto(t, "send")
       \/ Fail(t)
    /\ UNCHANGED << reader, updateVars, dump_infos, now, loader >>

\* UpdateMsg::dump: the Dump message with the path of the staging directory
\* is sent on the inbox
TaskSend(t) ==
    /\ t.pc = "send"
    /\ client[DumpSender].st = "idle"
    /\ LET c  == DumpSender
           m  == Dump(c, client[c].seq + 1, t.uid)
           cl == [client EXCEPT ![c].st = "blocked", ![c].seq = m.seq,
                                ![c].req = m, ![c].reply = NoReply,
                                ![c].late = (loop # "running")]
           ch == ChannelSend(inbox, waiters, rxDropped, cl, m)
       IN  /\ inbox' = ch.inbox
           /\ waiters' = ch.waiters
           /\ client' = ch.client
    /\ Goto(t, "await")
    /\ UNCHANGED << rxDropped, sendersDropped, must_exit, loop, inflight,
                    fileVars, storeVars, hist, dump_infos, now, disk, loader,
                    reader >>

\* UpdateMsg::dump(..).await?: the reply of the Update Loop, or the error of
\* a send or of a reply channel that was closed
AwaitReply(t) ==
    /\ t.pc = "await"
    /\ client[DumpSender].st = "idle"
    /\ client[DumpSender].req.path = t.uid
    /\ IF client[DumpSender].reply.tag = "Ok"
       THEN Goto(t, "tmp_file") /\ UNCHANGED disk
       ELSE Fail(t)
    /\ UNCHANGED << reader, updateVars, dump_infos, now, loader >>

\* the directory tempfile::NamedTempFile::new() creates its file in:
\* std::env::temp_dir()
TempFileDir == "temp_dir"

\* tempfile::NamedTempFile::new()
TmpFile(t) ==
    /\ t.pc = "tmp_file"
    /\ \/ /\ disk' = [disk EXCEPT !.archives =
                         With(@, t.uid, [dir |-> TempFileDir, content |-> {}])]
          /\ Goto(t, "tar")
       \/ Fail(t)
    /\ UNCHANGED << reader, updateVars, dump_infos, now, loader >>

\* to_tar_gz(temp_dump_path, temp_dump_file.path())
TarGz(t) ==
    /\ t.pc = "tar"
    /\ \/ /\ disk' = [disk EXCEPT !.archives[t.uid].content = disk.staging[t.uid]]
          /\ Goto(t, "persist")
       \/ Fail(t)
    /\ UNCHANGED << reader, updateVars, dump_infos, now, loader >>

\* the rename of persist works inside one file system only
CanRename(d, dir) == dir = "dumps_dir" \/ d.same_device

\* dump_path and temp_dump_file.persist(&dump_path)
PersistArchive(t) ==
    /\ t.pc = "persist"
    /\ \/ /\ CanRename(disk, disk.archives[t.uid].dir)
          /\ disk' = [disk EXCEPT
                         !.dumps = With(@, with_extension(FileName(t.uid), "dump"),
                                        disk.archives[t.uid].content),
                         !.archives = Without(@, t.uid)]
          /\ Goto(t, "return")
       \/ Fail(t)
    /\ UNCHANGED << reader, updateVars, dump_infos, now, loader >>

\* Ok(()): run returns, temp_dump_dir is dropped
TaskReturn(t) ==
    /\ t.pc = "return"
    /\ disk' = Dropped(disk, t)
    /\ Goto(t, "ok")
    /\ UNCHANGED << reader, updateVars, dump_infos, now, loader >>

TaskStep(t) ==
    \/ CreateDir(t)
    \/ TempDirNew(t)
    \/ WriteMeta(t)
    \/ ResolverDump(t)
    \/ TaskSend(t)
    \/ AwaitReply(t)
    \/ TmpFile(t)
    \/ TarGz(t)
    \/ PersistArchive(t)
    \/ TaskReturn(t)

----------------------------------------------------------------------------
(* The Dump Actor *)

InProgress(infos) == {u \in DOMAIN infos : dump_already_in_progress(infos[u])}

\* the uid of the next dump
NextUid(infos) == Uids[Cardinality(DOMAIN infos) + 1]

\* create_dump: the DumpInfo of the dump in progress if there is one, else a
\* new DumpInfo in progress, whose DumpTask is started
CreateDump ==
    /\ Len(hist.creates) < MaxCreates
    /\ Cardinality(DOMAIN dump_infos) < Len(Uids)
    /\ IF InProgress(dump_infos) # {}
       THEN /\ hist' = [hist EXCEPT !.creates =
                           Append(@, dump_infos[CHOOSE u \in InProgress(dump_infos) : TRUE])]
            /\ UNCHANGED << dump_infos, tasks >>
       ELSE LET uid  == NextUid(dump_infos)
                info == DumpInfoNew(uid, "InProgress", now)
            IN  /\ dump_infos' = With(dump_infos, uid, info)
                /\ tasks' = tasks \cup {Task(uid)}
                /\ hist' = [hist EXCEPT !.creates = Append(@, info)]
    /\ now' = now + 1
    /\ UNCHANGED << chanVars, must_exit, loop, inflight, client, fileVars,
                    storeVars, disk, loader, reader >>

\* the DumpTask has returned: the actor publishes its result
TaskEnd(t) ==
    /\ t.pc \in {"ok", "failed"}
    /\ dump_infos' = [dump_infos EXCEPT ![t.uid] =
                         IF t.pc = "ok" THEN done(@, now)
                         ELSE with_error(@, "Internal", now)]
    /\ tasks' = tasks \ {t}
    /\ now' = now + 1
    /\ UNCHANGED << reader, updateVars, disk, loader >>

----------------------------------------------------------------------------
(* load_dump *)

\* load_dump returns at the statement it is at: tmp_src is dropped, and
\* tmp_dst is unless into_path has consumed it
LoaderExit(l, pc) ==
    [l EXCEPT !.pc = pc,
              !.at = IF pc = "err" THEN l.pc ELSE @,
              !.tmp_src = FALSE,
              !.tmp_dst = IF l.kept THEN @ ELSE FALSE]

\* the outcomes of a statement of load_dump: its error, returned through `?`,
\* and, if ok allows it, the loader as the statement leaves it
Outcomes(ok, next) ==
    {LoaderExit(loader, "err")} \cup (IF ok THEN {next} ELSE {})

\* let tmp_src = tempfile::tempdir()?
TmpSrc ==
    /\ loader.pc = "idle"
    /\ loader' \in Outcomes(TRUE, [loader EXCEPT !.pc = "untar", !.tmp_src = TRUE])
    /\ UNCHANGED << reader, updateVars, dump_infos, tasks, now, disk >>

\* from_tar_gz(&src_path, tmp_src_path)?
FromTarGz ==
    /\ loader.pc = "untar"
    /\ loader' \in Outcomes(loader.archive # "unreadable",
                            [loader EXCEPT !.pc = "meta"])
    /\ UNCHANGED << reader, updateVars, dump_infos, tasks, now, disk >>

\* File::open(&meta_path)? and serde_json::from_reader(&mut meta_file)?
ReadMeta ==
    /\ loader.pc = "meta"
    /\ loader' \in Outcomes(loader.archive \in {"V1", "V2", "V3"},
                            [loader EXCEPT !.pc = "tmp_dst", !.meta = loader.archive])
    /\ UNCHANGED << reader, updateVars, dump_infos, tasks, now, disk >>

\* let tmp_dst = tempfile::tempdir()?
TmpDst ==
    /\ loader.pc = "tmp_dst"
    /\ loader' \in Outcomes(TRUE, [loader EXCEPT !.pc = "load", !.tmp_dst = TRUE])
    /\ UNCHANGED << reader, updateVars, dump_infos, tasks, now, disk >>

\* match meta: the loader of the version builds the database in tmp_dst
LoadVersion ==
    /\ loader.pc = "load"
    /\ loader' \in Outcomes(TRUE, [loader EXCEPT !.pc = "into_path"])
    /\ UNCHANGED << reader, updateVars, dump_infos, tasks, now, disk >>

\* let persisted_dump = tmp_dst.into_path()
IntoPath ==
    /\ loader.pc = "into_path"
    /\ loader' = [loader EXCEPT !.kept = TRUE,
                                !.pc = IF loader.dst = "absent" THEN "rename"
                                       ELSE "remove"]
    /\ UNCHANGED << reader, updateVars, dump_infos, tasks, now, disk >>

\* std::fs::remove_dir_all(&dst_path)?: it removes the tree entry by entry,
\* and an error may come after a part of it is gone
RemoveDst ==
    /\ loader.pc = "remove"
    /\ loader' \in Outcomes(TRUE, [loader EXCEPT !.pc = "rename", !.dst = "absent"])
                    \cup {LoaderExit([loader EXCEPT !.dst = "partial"], "err")}
    /\ UNCHANGED << reader, updateVars, dump_infos, tasks, now, disk >>

\* Rename as a copy that may stop half way
RenameByCopy ==
    /\ loader.pc = "rename"
    /\ loader' \in Outcomes(TRUE, LoaderExit([loader EXCEPT !.dst = "new"], "ok"))
                    \cup {LoaderExit([loader EXCEPT !.dst = "partial"], "err")}
    /\ UNCHANGED << reader, updateVars, dump_infos, tasks, now, disk >>

\* std::fs::rename(&persisted_dump, &dst_path)? and Ok(())
Rename ==
    /\ loader.pc = "rename"
    /\ loader' \in Outcomes(TRUE, LoaderExit([loader EXCEPT !.dst = "new"], "ok"))
    /\ UNCHANGED << reader, updateVars, dump_infos, tasks, now, disk >>

----------------------------------------------------------------------------
(* The requests clients send *)

\* ids a GetUpdate may ask for
MaxGetId == 1

DocumentAddition(c, s, u, f, p) == Msg(c, s, "Update", u, 0, "DocumentAddition", f, p)

PlainUpdate(c, s, u, k) == Msg(c, s, "Update", u, 0, k, "-", << >>)

ListUpdates(c, s, u) == Msg(c, s, "ListUpdates", u, 0, "-", "-", << >>)

GetUpdate(c, s, u, i) == Msg(c, s, "GetUpdate", u, i, "-", "-", << >>)

DeleteIndex(c, s, u) == Msg(c, s, "DeleteIndex", u, 0, "-", "-", << >>)

GetInfo(c, s) == Msg(c, s, "GetInfo", "-", 0, "-", "-", << >>)

Handle(h) ==
    \/ Ingest(h)
    \/ Register(h)
    \/ RunList(h)
    \/ RunGet(h)
    \/ RunDelete(h)
    \/ RunDump(h)
    \/ RunOther(h)

----------------------------------------------------------------------------
(* Spec: the pipeline. Clients register updates on two indexes, query and  *)
(* delete them, while the writer thread processes the queue.               *)

PipelineRequests(c, s) ==
    {DocumentAddition(c, s, u, "Json", GoodPayload) : u \in Indexes}
    \cup {PlainUpdate(c, s, u, "ClearDocuments") : u \in Indexes}
    \cup {ListUpdates(c, s, u) : u \in Indexes}
    \cup {GetUpdate(c, s, u, i) : u \in Indexes, i \in 0 .. MaxGetId}
    \cup {DeleteIndex(c, s, u) : u \in Indexes}

Next ==
    \/ \E c \in Clients : \E m \in PipelineRequests(c, client[c].seq + 1) : Send(c, m)
    \/ Dequeue
    \/ \E h \in BagToSet(inflight) : Handle(h)
    \/ WriterStart
    \/ WriterFinish

Spec == Init /\ [][Next]_vars


----------------------------------------------------------------------------
(* SpecLoad: saturation. Background producers and a client send GetInfo    *)
(* until the inbox and the fan-out are full; a fatal error may stop the    *)
(* Loop under load.                                                        *)

\* the client whose sends are followed among the background producers
Observed == CHOOSE c \in Clients : \A d \in Clients : c <= d

NextLoad ==
    \/ Send(Observed, GetInfo(Observed, client[Observed].seq + 1))
    \/ SendAnon(GetInfo(Anon, 0))
    \/ Dequeue
    \/ \E h \in BagToSet(inflight) : RunOther(h)
    \/ FatalError
    \/ ExitOnFlag
    \/ LoopReturn

SpecLoad == Init /\ [][NextLoad]_vars

----------------------------------------------------------------------------
(* SpecIngest: document additions on one index, the empty payload in every *)
(* format and every payload in Json, with the queries that see their       *)
(* outcome; callers may give up waiting for a reply.                       *)

IngestRequests(c, s) ==
    {DocumentAddition(c, s, "a", f, EmptyPayload) : f \in Formats}
    \cup {DocumentAddition(c, s, "a", "Json", p) : p \in Payloads}
    \cup {ListUpdates(c, s, "a")}
    \cup {GetUpdate(c, s, "a", i) : i \in 0 .. MaxGetId}

NextIngest ==
    \/ \E c \in Clients : \E m \in IngestRequests(c, client[c].seq + 1) : Send(c, m)
    \/ \E c \in Clients : DropReceiver(c)
    \/ Dequeue
    \/ \E h \in BagToSet(inflight) : Ingest(h)
    \/ \E h \in BagToSet(inflight) : Register(h)
    \/ \E h \in BagToSet(inflight) : RunList(h)
    \/ \E h \in BagToSet(inflight) : RunGet(h)

SpecIngest == Init /\ [][NextIngest]_vars

----------------------------------------------------------------------------
(* SpecShutdown: the two ways the Loop ends. The writer reports a fatal    *)
(* error, or the last sender is dropped, while requests are buffered and   *)
(* handlers are in flight. The runtime polls the Loop's task whenever it   *)
(* can make a step and blocking workers run to completion; nothing makes a *)
(* client send.                                                            *)

ShutdownRequests(c, s) ==
    {GetInfo(c, s),
     PlainUpdate(c, s, "a", "ClearDocuments"),
     DocumentAddition(c, s, "a", "Json", GoodPayload)}

Step(h) == Ingest(h) \/ Register(h) \/ RunOther(h)

NextShutdown ==
    \/ \E c \in Clients : \E m \in ShutdownRequests(c, client[c].seq + 1) : Send(c, m)
    \/ DropSenders
    \/ FatalError
    \/ Dequeue
    \/ ExitOnFlag
    \/ ExitOnClosed
    \/ LoopReturn
    \/ \E h \in BagToSet(inflight) : Ingest(h)
    \/ \E h \in BagToSet(inflight) : Register(h)
    \/ \E h \in BagToSet(inflight) : RunOther(h)

\* weak fairness of the handlers: a handler in flight can always make its
\* step, so either no handler is in flight infinitely often or a handler
\* steps infinitely often
HandlersProgress ==
    \/ []<>(InFlight = 0)
    \/ []<><< \E h \in BagToSet(inflight) : Step(h) >>_vars

SpecShutdown ==
    /\ Init
    /\ [][NextShutdown]_vars
    /\ WF_vars(Dequeue \/ ExitOnFlag \/ ExitOnClosed)
    /\ WF_vars(LoopReturn)
    /\ HandlersProgress

----------------------------------------------------------------------------
(* SpecDumpInfo: DumpInfos made by DumpInfo::new with any uid and status,   *)
(* and any sequence of calls of done() and with_error() on them.           *)

InitInfo ==
    /\ InitUpdates
    /\ tasks = {}
    /\ disk = EmptyDisk
    /\ loader = IdleLoader
    /\ reader = IdleReader
    /\ now = 1
    /\ \E us \in SUBSET {Uids[i] : i \in DOMAIN Uids} \ {{}} :
          \E st \in [us -> DumpStatus] :
             dump_infos = [u \in us |-> DumpInfoNew(u, st[u], 0)]

CallDone(u) ==
    /\ now <= MaxCalls
    /\ dump_infos' = [dump_infos EXCEPT ![u] = done(@, now)]
    /\ now' = now + 1
    /\ UNCHANGED << reader, updateVars, tasks, disk, loader >>

CallWithError(u, e) ==
    /\ now <= MaxCalls
    /\ dump_infos' = [dump_infos EXCEPT ![u] = with_error(@, e, now)]
    /\ now' = now + 1
    /\ UNCHANGED << reader, updateVars, tasks, disk, loader >>

NextInfo ==
    \/ \E u \in DOMAIN dump_infos : CallDone(u)
    \/ \E u \in DOMAIN dump_infos : \E e \in DumpErrors : CallWithError(u, e)

SpecDumpInfo == InitInfo /\ [][NextInfo]_vars

----------------------------------------------------------------------------
(* SpecDump: the Dump Actor receives create_dump requests and runs the      *)
(* DumpTasks, whose Dump messages the Update Loop handles. Every step of a  *)
(* task may fail; the temporary directory may be on another file system     *)
(* than <dumps_dir>; a fatal error may stop the Loop.                       *)

InitDump ==
    /\ InitUpdates
    /\ dump_infos = << >>
    /\ tasks = {}
    /\ now = 0
    /\ loader = IdleLoader
    /\ reader = IdleReader
    /\ \E b \in BOOLEAN : disk = [EmptyDisk EXCEPT !.same_device = b]

NextDump ==
    \/ CreateDump
    \/ \E t \in tasks : TaskStep(t)
    \/ \E t \in tasks : TaskEnd(t)
    \/ Dequeue
    \/ \E h \in BagToSet(inflight) : RunDump(h)
    \/ FatalError
    \/ ExitOnFlag
    \/ LoopReturn

SpecDump == InitDump /\ [][NextDump]_vars

----------------------------------------------------------------------------
(* SpecLoader: load_dump on any archive, over a database directory that     *)
(* exists or not; every fallible statement may fail.                        *)

InitLoader ==
    /\ InitUpdates
    /\ dump_infos = << >>
    /\ tasks = {}
    /\ now = 0
    /\ disk = EmptyDisk
    /\ \E a \in Archives : \E d \in {"absent", "old"} :
          loader = [IdleLoader EXCEPT !.archive = a, !.dst = d, !.was = d]
    /\ reader = IdleReader

NextLoader ==
    \/ TmpSrc
    \/ FromTarGz
    \/ ReadMeta
    \/ TmpDst
    \/ LoadVersion
    \/ IntoPath
    \/ RemoveDst
    \/ Rename

SpecLoader == InitLoader /\ [][NextLoader]_vars

----------------------------------------------------------------------------
(* SpecReader: a StreamReader on any stream of up to MaxChunks items, each  *)
(* a chunk of 0, 1 or 3 bytes or an error, under any sequence of reads      *)
(* with buffers of 0, 1 or BufCap bytes.                                    *)

InitReader ==
    /\ InitUpdates
    /\ dump_infos = << >>
    /\ tasks = {}
    /\ now = 0
    /\ disk = EmptyDisk
    /\ loader = IdleLoader
    /\ \E stream \in Streams : reader = ReaderOn(stream)

NextReader == \E n \in BufLens : Read(n)

SpecReader == InitReader /\ [][NextReader]_vars

----------------------------------------------------------------------------
(* Properties of the pipeline *)

Live(r) == r.status \in {"Enqueued", "Processing"}

\* C2: every DocumentAddition record that is Enqueued or Processing
\* references a content id whose payload is persisted in the File Store
C2_PayloadPersisted ==
    \A r \in updates :
        r.kind = "DocumentAddition" /\ Live(r) => Persisted(r.content)

\* a DocumentAddition is registered and waits in the queue with its payload,
\* while another one is being processed
C2_Witness ==
    /\ \E r \in updates :
         r.kind = "DocumentAddition" /\ r.status = "Enqueued" /\ Persisted(r.content)
    /\ \E r \in updates : r.kind = "DocumentAddition" /\ r.status = "Processing"

\* client c asked, after the reply to its Update, for the record it returned
AskedForKnown(c) ==
    /\ client[c].st = "idle"
    /\ client[c].known # NoRecord
    /\ client[c].req.kind \in {"GetUpdate", "ListUpdates"}
    /\ client[c].req.uuid = client[c].known.uid
    /\ client[c].req.kind = "GetUpdate" => client[c].req.id = client[c].known.id
    /\ client[c].reply.tag \in {"Ok", "Err"}
    /\ client[c].reply.err # "Internal"

\* the reply client c got holds the record it knows, no earlier in its life
ReturnsKnown(c) ==
    /\ client[c].reply.tag = "Ok"
    /\ \E i \in 1 .. Len(client[c].reply.recs) :
         LET r == client[c].reply.recs[i]
         IN  /\ Key(r) = Key(client[c].known)
             /\ r.kind = client[c].known.kind
             /\ Rank(r.status) >= Rank(client[c].known.status)

\* a record keeps its kind and its status only moves forward
StatusForward ==
    \A r \in updates : \A q \in updates' :
        Key(r) = Key(q) => q.kind = r.kind /\ Rank(q.status) >= Rank(r.status)

\* the record a successful Update returned is in the store when the reply is
\* there, unless delete_all removed it since
ReplyAfterCommit ==
    \A c \in Clients :
        client[c].known # NoRecord /\ ~client[c].deleted =>
            \E r \in updates : Key(r) = Key(client[c].known)
                               /\ r.kind = client[c].known.kind

Ids(uid) == {r.id : r \in RecordsOf(updates, uid)}

\* the listed ids are unique and without a gap up to the counter
DenseIds(uid) ==
    LET l == List(updates, uid)
    IN  /\ Len(l) = Cardinality(Ids(uid))
        /\ \A i \in 1 .. Len(l) - 1 : l[i + 1].id = l[i].id + 1
        /\ l # << >> => l[Len(l)].id = next_id[uid] - 1

\* a registration gets an id above every id of its index
CommitOrder ==
    \A q \in updates' :
        (\A r \in updates : Key(r) # Key(q)) =>
            /\ q.id = next_id[q.uid]
            /\ \A r \in RecordsOf(updates, q.uid) : q.id > r.id

\* C9 as stated: the ids list(index_uid) returns are 0, 1, 2, ...
C9_Original ==
    \A u \in Indexes :
        LET l == List(updates, u)
        IN  \A i \in 1 .. Len(l) : l[i].id = i - 1

\* C9: the update_ids of list(index_uid) are unique, strictly increasing and
\* without a gap, assigned in the order the registrations committed; they
\* start at 0 as long as no DeleteIndex of the index was handled (delete_all
\* does not reset the counter of the index)
C9_DenseIds ==
    /\ [](\A u \in Indexes : DenseIds(u))
    /\ [](\A u \in Indexes :
            ~hist.deleted[u] => \A i \in 1 .. Len(List(updates, u)) :
                                    List(updates, u)[i].id = i - 1)
    /\ [][CommitOrder]_vars

\* three registrations on one index, handled concurrently, list as 0, 1, 2
C9_Witness ==
    \E u \in Indexes :
        /\ Len(List(updates, u)) = 3
        /\ List(updates, u)[3].id = 2

Processing(uid) == {r \in RecordsOf(updates, uid) : r.status = "Processing"}

\* C10: at most one record per index is Processing, and the updates of an
\* index enter Processing in increasing update_id order
C10_SingleWriter ==
    /\ [](\A u \in Indexes : Cardinality(Processing(u)) <= 1)
    /\ [][\A u \in Indexes :
            hist'.lastProc[u] # hist.lastProc[u] =>
                hist'.lastProc[u] > hist.lastProc[u]]_vars

\* the second update of an index is Processing while a third one waits
C10_Witness ==
    \E u \in Indexes :
        /\ hist.lastProc[u] = 1
        /\ \E r \in Processing(u) : r.id = 1
        /\ \E r \in RecordsOf(updates, u) : r.status = "Enqueued"


Keys(us) == {Key(r) : r \in us}

\* the handler of a DeleteIndex{uid} returns in this step with result tag t
DeleteDone(uid, t) ==
    \E h \in BagToSet(inflight) :
        /\ h.msg.kind = "DeleteIndex" /\ h.msg.uuid = uid
        /\ h \notin BagToSet(inflight')
        /\ client'[h.msg.client].reply.tag = t

\* when a DeleteIndex is answered Ok the index has no record, the records of
\* the other indexes are as they were, and an index that had no record
\* leaves the stores as they were
DeleteEmpties ==
    \A u \in Indexes :
        DeleteDone(u, "Ok") =>
            /\ RecordsOf(updates', u) = {}
            /\ \A v \in Indexes \ {u} : RecordsOf(updates', v) = RecordsOf(updates, v)
            /\ RecordsOf(updates, u) = {}
                 => updates' = updates /\ pending' = pending /\ files' = files

\* no record of the index comes from an Update that was dequeued before the
\* DeleteIndex and was still being handled when the DeleteIndex was answered
StaysEmpty == \A r \in updates : Key(r) \notin hist.revived

\* C11 as stated: after the reply to DeleteIndex{index_uid} the index has no
\* record until a later request registers one, also when Updates of the index
\* dequeued before the DeleteIndex are still being handled; the other
\* indexes keep their records and a second DeleteIndex is a no-op
C11_Original ==
    /\ [][DeleteEmpties]_vars
    /\ []StaysEmpty

\* the place of request q in the order of the dequeues
Place(q) == CHOOSE i \in 1 .. Len(hist.order) : hist.order[i] = q

\* the last request of client c was an Update of index uid that was answered
\* with its record
Answered(c, uid) ==
    /\ client[c].st = "idle"
    /\ client[c].req.kind = "Update" /\ client[c].req.uuid = uid
    /\ client[c].reply.tag = "Ok"
    /\ << c, client[c].seq >> \in hist.started

\* C21: two Updates of the same index that the Loop dequeued in the order
\* m1, m2 are registered with update_ids in that order
C21_Original ==
    \A c, d \in Clients : \A uid \in Indexes :
        /\ Answered(c, uid) /\ Answered(d, uid)
        /\ Place(<< c, client[c].seq >>) < Place(<< d, client[d].seq >>)
        => client[c].known.id < client[d].known.id

\* a registered DocumentAddition references content id cid
Referenced(cid) ==
    \E r \in updates : r.kind = "DocumentAddition" /\ r.content = cid

\* the handler that allocated content id cid is still in flight
Handling(cid) == \E h \in BagToSet(inflight) : h.content = cid

\* a DocumentAddition whose handler returned an error has no record, and no
\* blob if the error is one of the parser
FailedUnregistered ==
    \A a \in hist.alloc :
        << a[1], a[2] >> \in hist.failed =>
            /\ ~Referenced(a[3])
            /\ /\ client[a[1]].seq = a[2]
               /\ client[a[1]].reply.err \in {"MissingPayload", "MalformedPayload"}
               => ~Persisted(a[3])

\* C24: a DocumentAddition that failed after its content id was allocated
\* has no record and no blob under that id, and every blob handle_update
\* persisted is referenced by a registered record once its handler has
\* replied
C24_Original ==
    /\ FailedUnregistered
    /\ \A cid \in DOMAIN files : ~Handling(cid) => Referenced(cid)

----------------------------------------------------------------------------
(* Properties of the Loop under load *)

\* the Loop takes a message from the inbox
Recv == Dequeue \/ ExitOnFlag \/ ExitOnClosed

\* C4: at most 10 handlers are in flight, with 10 in flight the Loop takes
\* no message from the inbox, and the inbox holds at most 100 messages
C4_Bounded ==
    /\ InFlight <= Concurrency
    /\ InFlight = Concurrency => ~ENABLED Recv
    /\ Len(inbox) <= InboxCapacity

\* 10 handlers in flight, 100 messages in the inbox, a producer blocked
C4_Witness ==
    /\ InFlight = Concurrency
    /\ Len(inbox) = InboxCapacity
    /\ waiters # << >>

\* the observed client sends in this step
ObservedSends == client'[Observed].seq # client[Observed].seq

\* a send to a full inbox blocks: the sender queues behind the waiting ones
FullBlocks ==
    ObservedSends /\ Len(inbox) = InboxCapacity /\ ~rxDropped =>
        /\ client'[Observed].st = "blocked"
        /\ waiters' = Append(waiters, client'[Observed].req)
        /\ inbox' = inbox

\* a blocked send is let in when the Loop takes a message, the one that
\* waited longest first, and its message goes to the end of the inbox
FifoWake ==
    Len(waiters') < Len(waiters) /\ ~rxDropped' =>
        /\ waiters' = Tail(waiters)
        /\ inbox' = Append(Tail(inbox), Head(waiters))

\* C5: a send to the full inbox blocks; senders wait only while the inbox is
\* full; with the inbox full, once a handler has completed and fewer than 10
\* are in flight the Loop takes the next message; blocked senders are let in
\* in the order of their attempts
C5_Backpressure ==
    /\ [][FullBlocks]_vars
    /\ [](waiters # << >> => Len(inbox) = InboxCapacity)
    /\ [](loop = "running" /\ Len(inbox) = InboxCapacity /\ InFlight < Concurrency =>
            ENABLED (Dequeue \/ ExitOnFlag))
    /\ [][FifoWake]_vars

\* the inbox is full, 10 handlers are in flight, and the observed client
\* waits behind a background producer
C5_Witness ==
    /\ InFlight = Concurrency
    /\ Len(inbox) = InboxCapacity
    /\ Len(waiters) = 2
    /\ waiters[1].client = Anon
    /\ waiters[2].client = Observed

----------------------------------------------------------------------------
(* Properties of the ingestion *)

EmptyAddition(m) ==
    m.kind = "Update" /\ m.update = "DocumentAddition" /\ m.payload = EmptyPayload

\* the content ids new_update allocated for the request the client sent last
ContentOf(c) == {a[3] : a \in {b \in hist.alloc : b[1] = c /\ b[2] = client[c].seq}}

Replied(c) == client[c].reply.tag \in {"Ok", "Err"}

ErrorsOf(m) ==
    IF m.kind = "GetUpdate" THEN {"UnexistingUpdate"}
    ELSE IF m.kind # "Update" THEN {}
    ELSE IF m.payload = EmptyPayload THEN {"MissingPayload"}
    ELSE IF m.payload = MalformedPayload THEN {"MalformedPayload"}
    ELSE {}

\* the Loop leaves its running state only at a shutdown
StopsAtShutdown ==
    loop = "running" /\ loop' # "running"
        => must_exit \/ (sendersDropped /\ inbox = << >>)

\* the error of a failed handler is what its caller receives
ErrorReturned ==
    \A c \in Clients :
        /\ << c, client[c].seq >> \in hist.failed \ hist.undelivered
             => client[c].st = "idle" /\ client[c].reply.tag = "Err"
        /\ client[c].reply.tag = "Err"
             => /\ << c, client[c].seq >> \in hist.failed
                /\ client[c].reply.err \in ErrorsOf(client[c].req) \cup {"Internal"}
                /\ client[c].reply.err = "UnexistingUpdate"
                     => client[c].reply.id = client[c].req.id
                /\ client[c].reply.err \in {"MissingPayload", "MalformedPayload"}
                     => client[c].reply.fmt = client[c].req.format

\* whatever the earlier handlers returned, the next message is dequeued as
\* soon as the fan-out has room
KeepsDequeuing ==
    loop = "running" /\ ~must_exit /\ inbox # << >> /\ InFlight < Concurrency
        => ENABLED Dequeue

\* C6: a handler that fails (missing or malformed payload, unknown update
\* id, store or I/O error, panicked worker) returns its error to its caller
\* and to nobody else; the Loop keeps running and keeps dequeuing, also when
\* the caller has dropped the receiver of the reply.
C6_HandlerErrors ==
    /\ [][StopsAtShutdown]_vars
    /\ []ErrorReturned
    /\ []KeepsDequeuing

\* a client gave up on a request whose handler then failed, and the request
\* it sent next was handled and answered
C6_Witness ==
    \E c \in Clients :
        /\ client[c].seq = 2
        /\ << c, 1 >> \in hist.failed \cap hist.undelivered
        /\ client[c].reply.tag = "Ok"
        /\ loop = "running"

----------------------------------------------------------------------------
(* Properties of the shutdown *)

\* C7 as stated: once must_exit is true, and once every sender is dropped,
\* run() eventually returns
C7_Original == (must_exit \/ sendersDropped) ~> (loop = "returned")

\* the stream ends where the code ends it: at a recv() that returns a
\* message while must_exit is true, or that returns None
EndsOnObservation ==
    loop = "running" /\ loop' # "running"
        => /\ loop' = "draining"
           /\ \/ must_exit /\ inbox # << >>
              \/ sendersDropped /\ inbox = << >>

\* once the stream has ended no handler is started and the handlers in
\* flight finish before run() returns
Drains ==
    /\ loop # "running" => /\ InFlight' <= InFlight
                           /\ inbox' = << >>
                           /\ loop' # "running"
    /\ loop # "returned" /\ loop' = "returned" => InFlight = 0

\* when run() has returned every request has its answer, and the answer of
\* a request whose handler was started is the result of the handler
AllAnswered ==
    loop = "returned" =>
        /\ InFlight = 0
        /\ \A c \in Clients :
              client[c].seq > 0 =>
                 /\ client[c].st = "idle"
                 /\ client[c].reply # NoReply
                 /\ << c, client[c].seq >> \in hist.started
                      => client[c].reply.tag \in {"Ok", "Err"}

\* C7: the Loop looks at must_exit only when recv() has returned a message.
\* Once a recv() returns a message while must_exit is true, or returns None
\* (every sender dropped and the inbox drained), the Loop dequeues nothing
\* more, the handlers in flight run to completion and deliver their
\* replies, and run() returns. run() eventually returns when every sender is
\* dropped, and when must_exit is true and a message is in the inbox.
C7_Shutdown ==
    /\ [][EndsOnObservation /\ Drains]_vars
    /\ []AllAnswered
    /\ (sendersDropped \/ (must_exit /\ inbox # << >>)) ~> (loop = "returned")

\* run() has returned after a fatal error: the request received at the
\* observation was dropped and the caller of a registered update has its
\* record
C7_Witness ==
    /\ loop = "returned"
    /\ must_exit
    /\ hist.dropped # {}
    /\ \E c \in Clients :
          /\ client[c].reply.tag = "Ok"
          /\ client[c].reply.recs # << >>

\* C8: once the Loop has stopped the Receiver is gone: nothing is buffered
\* and no send waits, and a send made after the stop returns the
\* closed-channel error at once.
C8_ClosedAfterExit ==
    /\ loop # "running" => rxDropped /\ inbox = << >> /\ waiters = << >>
    /\ \A c \in Clients :
          client[c].late => client[c].st = "idle" /\ client[c].reply = SendError

\* a client sent after run() had returned and got the closed-channel error
C8_Witness ==
    \E c \in Clients :
        /\ client[c].late
        /\ client[c].reply = SendError
        /\ loop = "returned"

\* the Loop took the last request of client c from the inbox
TakenFromInbox(c) ==
    << c, client[c].seq >> \in hist.started \cup hist.dropped

\* C22: every message the Loop removes from the inbox is given to its
\* handler, and its caller receives the result of the handler, also the
\* message received when must_exit is observed true
C22_Original ==
    \A c \in Clients :
        TakenFromInbox(c) =>
            /\ << c, client[c].seq >> \in hist.started
            /\ client[c].st = "idle" => client[c].reply.tag \in {"Ok", "Err"}

----------------------------------------------------------------------------
(* Properties of DumpInfo *)

\* C12 as stated: the status only moves from InProgress to Done or Failed,
\* and a DumpInfo that is Done or Failed is changed by no call
C12_Original ==
    [][\A u \in DOMAIN dump_infos :
          /\ dump_infos'[u].status # dump_infos[u].status
               => dump_infos[u].status = "InProgress"
          /\ dump_infos[u].status # "InProgress"
               => dump_infos'[u] = dump_infos[u]]_vars

\* what a call leaves: a status that is not InProgress, the time of the call
\* as finished_at, an error with Failed and the error as it was with Done;
\* uid and started_at as they were
CallEffect(a, b) ==
    /\ b.status \in {"Done", "Failed"}
    /\ b.finished_at = SomeTime(now)
    /\ b.status = "Failed" => b.error.some
    /\ b.status = "Done" => b.error = a.error
    /\ b.uid = a.uid /\ b.started_at = a.started_at

\* C12: a DumpInfo never returns to InProgress, and while it is InProgress
\* its finished_at and error are unset. done() and with_error() do not look
\* at the status: every call sets finished_at to the time of the call,
\* done() sets Done and keeps the error, with_error() sets Failed and the
\* error, also on a DumpInfo that is Done or Failed already.
C12_Transitions ==
    /\ [][\A u \in DOMAIN dump_infos :
             dump_infos'[u] # dump_infos[u]
                => CallEffect(dump_infos[u], dump_infos'[u])]_vars
    /\ [](\A u \in DOMAIN dump_infos :
            dump_infos[u].status = "InProgress"
                => dump_infos[u].finished_at = NoTime /\ dump_infos[u].error = NoError)

\* a DumpInfo that started InProgress failed and was then marked Done: it is
\* Done, holds the error, and finished at the second call
C12_Witness ==
    \E u \in DOMAIN dump_infos :
        /\ dump_infos[u].status = "Done"
        /\ dump_infos[u].error.some
        /\ dump_infos[u].finished_at = SomeTime(2)

----------------------------------------------------------------------------
(* Properties of the Dump Actor and of DumpTask::run *)

\* the dumps whose DumpInfo is InProgress
Running == {u \in DOMAIN dump_infos : dump_infos[u].status = "InProgress"}

OneInProgress ==
    /\ Cardinality(Running) <= 1
    /\ Cardinality(tasks) <= 1
    /\ \A t \in tasks : t.uid \in Running

\* create_dump replied in this step
CreateReplied == Len(hist'.creates) > Len(hist.creates)

SecondCreate ==
    Running # {} /\ CreateReplied =>
        /\ tasks' = tasks
        /\ dump_infos' = dump_infos
        /\ \E u \in Running : hist'.creates[Len(hist'.creates)] = dump_infos[u]

DumpFileName(uid) == << uid, "dump" >>

\* what the archive of a dump holds: metadata.json with dumpVersion V3, the
\* dump of the indexes and the dump of the Update Store
DumpLayout ==
    {Entry("metadata.json", "V3"), Entry("indexes", "dump"),
     Entry("updates", "queues")}

Published(uid) ==
    /\ disk.dumps_dir
    /\ DumpFileName(uid) \in DOMAIN disk.dumps
    /\ DumpLayout \subseteq disk.dumps[DumpFileName(uid)]

\* C14: when DumpTask::run returns success, <dumps_dir>/<uid>.dump exists
\* and is the archive of the staging directory, which holds metadata.json
\* with dumpVersion V3, the dump of the indexes and the dump of the Update
\* Store
C14_DumpPublished ==
    /\ \A t \in tasks :
          /\ t.pc \in {"return", "ok"} => Published(t.uid)
          /\ t.pc = "return" =>
                disk.dumps[DumpFileName(t.uid)] = disk.staging[t.uid]
    /\ \A u \in DOMAIN dump_infos :
          dump_infos[u].status = "Done" => Published(u)

\* a DumpTask has returned success and its dump is published
C14_Witness ==
    \E t \in tasks :
        /\ t.pc = "ok"
        /\ Published(t.uid)
        /\ disk.dumps[DumpFileName(t.uid)] = DumpLayout

\* the steps of run that come after the reply to the Dump message
AfterReply == {"tmp_file", "tar", "persist", "return", "ok"}

NothingLeft(uid) ==
    /\ uid \notin DOMAIN disk.staging
    /\ uid \notin DOMAIN disk.archives
    /\ DumpFileName(uid) \notin DOMAIN disk.dumps

\* C15: when a step of DumpTask::run fails, run returns an error, the
\* staging directory is removed and no <uid>.dump is left; a Dump message
\* that was not answered Ok is such a failure
C15_FailureCleansUp ==
    /\ \A t \in tasks :
          /\ t.pc = "failed" => NothingLeft(t.uid)
          /\ t.pc \in AfterReply => client[DumpSender].reply.tag = "Ok"
    /\ \A u \in DOMAIN dump_infos :
          dump_infos[u].status = "Failed" => NothingLeft(u)

\* the persist of a complete archive failed, after an earlier dump had
\* failed
C15_Witness ==
    /\ \E t \in tasks :
          /\ t.pc = "failed" /\ t.at = "persist"
          /\ NothingLeft(t.uid)
    /\ \E u \in DOMAIN dump_infos : dump_infos[u].status = "Failed"
    /\ client[DumpSender].reply.tag = "Ok"
    /\ disk.dumps_dir

\* the files of the staging directory of task t
Staged(t) ==
    IF t.uid \in DOMAIN disk.staging
    THEN {e[1] : e \in disk.staging[t.uid]} ELSE {}

\* what the steps of run have made when the task is at pc: each step starts
\* when the ones before it are done
StepsInOrder ==
    \A t \in tasks :
        /\ "indexes" \in Staged(t) => META_FILE_NAME \in Staged(t)
        /\ "updates" \in Staged(t) => "indexes" \in Staged(t)
        /\ t.pc \in {"create_dir", "temp_dir", "meta"} => Staged(t) = {}
        /\ t.pc = "resolver" => Staged(t) = {META_FILE_NAME}
        /\ t.pc = "send" => Staged(t) = {META_FILE_NAME, "indexes"}
        /\ t.pc \in AfterReply \ {"ok"} =>
              /\ Staged(t) = {META_FILE_NAME, "indexes", "updates"}
              /\ client[DumpSender].reply.tag = "Ok"
        /\ t.uid \in DOMAIN disk.archives => t.pc \in {"tar", "persist"}
        /\ DumpFileName(t.uid) \in DOMAIN disk.dumps => t.pc \in {"return", "ok"}

\* the temporary file of the archive is in <dumps_dir>
ArchiveInDumpsDir ==
    \A u \in DOMAIN disk.archives : disk.archives[u].dir = "dumps_dir"

\* C17: DumpTask::run writes metadata.json, then has the indexes dumped, then
\* sends the Dump message and awaits its reply, then archives the staging
\* directory into a temporary file in <dumps_dir>, then renames that file to
\* <uid>.dump; the archive is not started before the Update Loop replied Ok
C17_Original == StepsInOrder /\ ArchiveInDumpsDir

----------------------------------------------------------------------------
(* Properties of load_dump *)

LoaderReturned == loader.pc \in {"ok", "err"}

\* C16: when load_dump returns, tmp_src is removed, and tmp_dst is removed
\* unless it was renamed to dst_path
C16_Original ==
    LoaderReturned =>
        /\ ~loader.tmp_src
        /\ loader.tmp_dst => loader.pc = "ok" /\ loader.dst = "new"

\* C23 as stated: at every point dst_path holds the complete previous
\* database or the complete new one, and when load_dump returns an error it
\* holds what it held before
C23_Original ==
    /\ loader.dst \in {loader.was, "new"}
    /\ loader.pc = "err" => loader.dst = loader.was

\* the statements of load_dump before the removal of the old database
BeforeRemoval == {"idle", "untar", "meta", "tmp_dst", "load", "into_path", "remove"}

\* C23: dst_path is left as it was until the loader of the version has
\* built the new database in tmp_dst, and after any failure up to there;
\* then the old database, if there is one, is removed, which may fail with
\* a part of it gone; then dst_path is absent until the rename, which puts
\* the complete new database there or fails and leaves dst_path absent
C23_RemoveThenRename ==
    /\ loader.pc \in BeforeRemoval => loader.dst = loader.was
    /\ loader.pc = "err" /\ loader.at \in BeforeRemoval \ {"remove"}
          => loader.dst = loader.was
    /\ loader.pc = "err" /\ loader.at = "remove" => loader.dst \in {"old", "partial"}
    /\ loader.pc = "rename" \/ (loader.pc = "err" /\ loader.at = "rename")
          => loader.dst = "absent"
    /\ loader.pc = "ok" <=> loader.dst = "new"

\* the old database was removed and the rename failed: load_dump returned
\* an error and dst_path is absent
C23_Witness ==
    /\ loader.pc = "err" /\ loader.at = "rename"
    /\ loader.was = "old"
    /\ loader.dst = "absent"
    /\ loader.tmp_dst

----------------------------------------------------------------------------
(* Properties of StreamReader::read *)

RECURSIVE ChunkBytes(_)
\* the concatenation of the chunks of a stream
ChunkBytes(stream) ==
    IF stream = << >> THEN << >>
    ELSE (IF Head(stream).ok THEN Head(stream).bytes ELSE << >>)
         \o ChunkBytes(Tail(stream))

\* the items the reader has pulled from its stream
Pulled == SubSeq(reader.input, 1, Len(reader.input) - Len(reader.sr.stream))

Residual(sr) == IF sr.current.some THEN sr.current.bytes ELSE << >>

IsPrefix(a, b) == Len(a) <= Len(b) /\ SubSeq(b, 1, Len(a)) = a

\* the last read found a residual, or no residual and a chunk next
ReadFromChunk ==
    /\ reader.calls > 0
    /\ \/ reader.prev.current.some
       \/ reader.prev.stream # << >> /\ Head(reader.prev.stream).ok

CopiesMin ==
    ReadFromChunk =>
        LET p     == reader.prev
            r     == reader.last
            avail == IF p.current.some THEN p.current.bytes
                     ELSE Head(p.stream).bytes
            k     == Min(Len(avail), reader.n)
        IN  /\ ~r.err
            /\ r.got = SubSeq(avail, 1, k)
            /\ Residual(r.sr) = SubSeq(avail, k + 1, Len(avail))
            /\ r.sr.stream = IF p.current.some THEN p.stream ELSE Tail(p.stream)

InOrder ==
    /\ IsPrefix(reader.delivered, ChunkBytes(reader.input))
    /\ reader.delivered \o Residual(reader.sr) = ChunkBytes(Pulled)

\* C18: a read with a residual of r bytes and a buffer of n bytes returns
\* the first min(r, n) bytes of the residual and keeps the rest as the
\* residual; with no residual it pulls the next chunk first; the bytes
\* delivered by the reads so far are, in order, without loss or duplication,
\* a prefix of the concatenation of the chunks
C18_ReadCopies == CopiesMin /\ InOrder

\* a read of 1 byte from a residual of 2 bytes, after reads that crossed a
\* chunk boundary
C18_Witness ==
    /\ reader.calls >= 3
    /\ reader.prev.current.some
    /\ Len(reader.prev.current.bytes) = 2
    /\ reader.n = 1
    /\ Len(reader.last.got) = 1
    /\ Len(Residual(reader.sr)) = 1
    /\ Len(Pulled) >= 2
    /\ Len(reader.delivered) >= 4

\* the last read found no residual and the stream exhausted
ReadAtEnd ==
    /\ reader.calls > 0
    /\ ~reader.prev.current.some
    /\ reader.prev.stream = << >>

\* the last read found no residual and an error as the next item
ReadAtError ==
    /\ reader.calls > 0
    /\ ~reader.prev.current.some
    /\ reader.prev.stream # << >>
    /\ ~Head(reader.prev.stream).ok

\* C19: a read on an exhausted stream with no residual returns 0 bytes; a
\* read whose next item is an error returns an I/O error of kind BrokenPipe
\* and no byte, and the bytes of the chunks before the error have all been
\* delivered by the earlier reads
C19_EofAndError ==
    /\ ReadAtEnd =>
          /\ ~reader.last.err
          /\ reader.last.got = << >>
          /\ reader.sr = reader.prev
    /\ ReadAtError =>
          /\ reader.last.err
          /\ reader.last.kind = "BrokenPipe"
          /\ reader.last.got = << >>
          /\ reader.delivered = ChunkBytes(Pulled)

\* a read met the error that follows two chunks, one of them read in two
\* parts
C19_Witness ==
    /\ ReadAtError
    /\ reader.last.err
    /\ Len(Pulled) = 3
    /\ Len(reader.delivered) >= 4
    /\ reader.calls >= 4

\* the stream has no error item
Unbroken(stream) == \A i \in 1 .. Len(stream) : stream[i].ok

\* a read into a non-empty buffer returns 0 only on an exhausted stream
ZeroOnlyAtEnd ==
    /\ reader.calls > 0 /\ reader.n > 0
    /\ ~reader.last.err /\ reader.last.got = << >>
    => ReadAtEnd

\* a DocumentAddition whose payload has a byte is neither rejected with
\* MissingPayload nor truncated
PayloadKeptWhole ==
    Unbroken(reader.input) /\ ChunkBytes(reader.input) # << >> =>
        LET r == IngestResult(DocumentAddition(1, 1, "a", "Json", reader.input))
        IN  /\ r.ok => r.data = ChunkBytes(reader.input)
            /\ r.res.err # "MissingPayload"

\* C20: read with a non-empty buffer returns 0 only when the stream is
\* exhausted: a zero-length chunk is not reported as the end of the input,
\* so a payload of at least one byte is never rejected with MissingPayload
\* and never truncated
C20_Original == ZeroOnlyAtEnd /\ PayloadKeptWhole

============================================================================
